---- MODULE Spec2Model ----
(***************************************************************************)
(* Model of calc_comp_rel.py: the reliability and completeness estimators  *)
(* over a reference catalog (calculate_reliability,                        *)
(* calculate_completeness) and the batch loop of main().                   *)
(*                                                                         *)
(* Numbers are integers on a per-axis grid, so that every comparison the   *)
(* code makes is exact:                                                    *)
(*   period (prot_rh20, input_period, period limits): tenths of a day      *)
(*   power  (power, ls, ls limits):                    units of 0.05       *)
(*   magnitude (Tmag, t, t limits):                    units of 0.5 mag    *)
(*   snr    (snr, snr limits):                         units of 2.5        *)
(* A catalog cell is Num(n) or NaN; an optional argument is Num(n) or None.*)
(***************************************************************************)
EXTENDS Integers, Sequences, FiniteSets, TLC

VARIABLES
    catalog,    \* df: the reference table, a sequence of rows
    func,       \* which estimator is executing
    query,      \* the arguments of the call in progress
    pc,         \* position inside the estimator
    all_df,     \* completeness: rows inside the period window
    param_df,   \* rows that passed the filters run so far
    filters,    \* the filters this call has applied to the catalog
    result,     \* value returned (None or a ratio) or the error raised
    prev,       \* caller: an earlier call it still holds the outcome of
    args,       \* main: the parsed command line
    columns,    \* main: batch_df.columns
    batch,      \* main: the rows of batch_df
    idx,        \* main: rows of batch_df the loop has finished
    partial,    \* main: r_match, r_alias of the row in progress
    match_list, alias_list, recovery_list   \* main: the output columns

estimator == <<func, query, pc, all_df, param_df, filters, result>>
caller == <<prev, args, columns, batch, idx, partial, match_list, alias_list, recovery_list>>
vars == <<catalog, estimator, caller>>

----------------------------------------------------------------------------
(* Values *)

Num(n) == [v |-> n]
NaN == [nan |-> TRUE]
None == [none |-> TRUE]

\* variant: the lower bound taken as inclusive
ColGe(cell, bound) == cell # NaN /\ cell.v >= bound
\* pandas: column > bound, False for a missing value
ColGt(cell, bound) == cell # NaN /\ cell.v > bound
\* pandas: column < bound, False for a missing value
ColLt(cell, bound) == cell # NaN /\ cell.v < bound

----------------------------------------------------------------------------
(* Program constants *)

\* assert 0.2 < input_period < 20
PeriodMin == 2
PeriodMax == 200
\* assert 0 < ls < 1
PowerMin == 0
PowerMax == 20
\* assert snr > 0
SnrMin == 0
\* if len(param_df) < 3: return None
MinRows == 3
\* keyword defaults of the limits
DefaultPeriodLimit == 10
DefaultLsLimit == 1
DefaultTLimit == 1
DefaultSnrLimit == 1

Modes == {"match", "alias", "recovery"}

----------------------------------------------------------------------------
(* Bounds and input spaces *)

\* at most this many rows in a catalog
MaxRows == 4

Row(i, p, pw, tm, s, st) ==
    [index |-> i, prot_rh20 |-> p, power |-> pw, Tmag |-> tm, snr |-> s, status |-> st]

\* The rows catalogs are drawn from. Around the query centre (90, 10, 10, 10)
\* with the default limits: row 1 is inside on every axis, rows 3-4 sit exactly
\* on a bound of the period window and row 2 beyond it, rows 5-7 sit on bounds
\* of the auxiliary windows, rows 7-8 miss values.
RowPool ==
    << Row(1, Num(90), Num(10), Num(10), Num(10), "match"),
       Row(2, Num(105), Num(10), Num(10), Num(10), "alias"),
       Row(3, Num(100), Num(10), Num(10), Num(10), "not_recovered"),
       Row(4, Num(80), Num(10), Num(10), Num(10), "harmonic"),
       Row(5, Num(85), Num(11), Num(10), Num(9), "match"),
       Row(6, Num(95), Num(9), Num(11), Num(11), "not_recovered"),
       Row(7, Num(90), NaN, Num(9), NaN, "alias"),
       Row(8, NaN, Num(10), NaN, Num(11), "match") >>

RECURSIVE PickRows(_, _)
\* the rows of RowPool whose position is in S, in pool order, from position i on
PickRows(S, i) ==
    IF i > Len(RowPool) THEN <<>>
    ELSE IF i \in S THEN <<RowPool[i]>> \o PickRows(S, i + 1)
    ELSE PickRows(S, i + 1)

Catalogs ==
    { PickRows(S, 1) : S \in { T \in SUBSET (1 .. Len(RowPool)) : Cardinality(T) <= MaxRows } }

LimitNames ==
    { "period_lower_limit", "period_upper_limit", "ls_lower_limit", "ls_upper_limit",
      "t_lower_limit", "t_upper_limit", "snr_lower_limit", "snr_upper_limit" }

DefaultLimit(name) ==
    IF name \in {"period_lower_limit", "period_upper_limit"} THEN DefaultPeriodLimit
    ELSE IF name \in {"ls_lower_limit", "ls_upper_limit"} THEN DefaultLsLimit
    ELSE IF name \in {"t_lower_limit", "t_upper_limit"} THEN DefaultTLimit
    ELSE DefaultSnrLimit

DefaultLimits == [n \in LimitNames |-> DefaultLimit(n)]

\* a limit passed explicitly is twice its default
CustomLimit(name) == 2 * DefaultLimit(name)

\* the limits of a call: at most one of the eight differs from its default
LimitSpace ==
    {DefaultLimits} \cup { [DefaultLimits EXCEPT ![n] = CustomLimit(n)] : n \in LimitNames }

MakeQuery(p, l, tt, s, m, w) ==
    [ input_period |-> p,
      period_lower_limit |-> w["period_lower_limit"],
      period_upper_limit |-> w["period_upper_limit"],
      ls |-> l, ls_lower_limit |-> w["ls_lower_limit"], ls_upper_limit |-> w["ls_upper_limit"],
      t |-> tt, t_lower_limit |-> w["t_lower_limit"], t_upper_limit |-> w["t_upper_limit"],
      snr |-> s, snr_lower_limit |-> w["snr_lower_limit"], snr_upper_limit |-> w["snr_upper_limit"],
      mode |-> m ]

PeriodInputs == { PeriodMin, 90, PeriodMax }
LsInputs == { None, Num(PowerMin), Num(10), Num(PowerMax) }
TInputs == { None, Num(10) }
SnrInputs == { None, Num(SnrMin), Num(10) }
ModeInputs == Modes \cup { "exact" }

QuerySpace ==
    { MakeQuery(p, l, tt, s, m, w) :
        p \in PeriodInputs, l \in LsInputs, tt \in TInputs, s \in SnrInputs,
        m \in ModeInputs, w \in LimitSpace }

Funcs == { "reliability", "completeness" }

NoQuery == MakeQuery(90, None, None, None, "match", DefaultLimits)
NoCall == [none |-> TRUE]

----------------------------------------------------------------------------
(* The estimators *)

RECURSIVE Gcd(_, _)
Gcd(a, b) == IF b = 0 THEN a ELSE Gcd(b, a % b)

Raised(msg) == [error |-> msg]

\* len(x) / len(y): the quotient as a fraction in lowest terms (equal floats
\* are equal fractions), ZeroDivisionError for an empty y
Divide(n, d) ==
    IF d = 0 THEN Raised("ZeroDivisionError")
    ELSE [num |-> n \div Gcd(n, d), den |-> d \div Gcd(n, d)]

IsError(x) == "error" \in DOMAIN x

\* len(x) / len(y) is a Python float: an IEEE 754 binary64 with this many
\* significant bits
Precision == 53

RECURSIVE Normal(_, _, _)
\* n / d (n > 0) written as (n2 / d2) * 2^e with 1/2 <= n2 / d2 < 1: <<n2, d2, e>>
Normal(n, d, e) ==
    IF n >= d THEN Normal(n, 2 * d, e + 1)
    ELSE IF 2 * n < d THEN Normal(2 * n, d, e - 1)
    ELSE <<n, d, e>>

RECURSIVE DivBits(_, _, _)
\* the first k bits after the point of rem / d (rem < d) and the remainder
\* they leave: <<bits, remainder>>
DivBits(rem, d, k) ==
    IF k = 0 THEN << <<>>, rem >>
    ELSE LET b == IF 2 * rem >= d THEN 1 ELSE 0
             rest == DivBits(2 * rem - b * d, d, k - 1)
         IN << <<b>> \o rest[1], rest[2] >>

\* a bit string plus one unit in its last place (all ones wrap to all zeros)
Incr(bits) ==
    [i \in 1 .. Len(bits) |->
        IF \A j \in i + 1 .. Len(bits) : bits[j] = 1 THEN 1 - bits[i] ELSE bits[i]]

\* round to nearest, ties to even: the kept bits m (first bit 1) with exponent
\* e, moved up one place when the dropped part is above half a unit (up) or
\* is exactly half a unit (tie) with the last kept bit odd
Rounded(m, e, up, tie) ==
    IF up \/ (tie /\ m[Len(m)] = 1)
    THEN IF \A i \in 1 .. Len(m) : m[i] = 1
         THEN [e |-> e + 1, m |-> [i \in 1 .. Len(m) |-> IF i = 1 THEN 1 ELSE 0]]
         ELSE [e |-> e, m |-> Incr(m)]
    ELSE [e |-> e, m |-> m]

FloatZero == [e |-> 0, m |-> [i \in 1 .. Precision |-> 0]]

\* the float n / d evaluates to: 0.m[1]m[2]... * 2^e
Double(n, d) ==
    IF n = 0 THEN FloatZero
    ELSE LET s == Normal(n, d, 0)
             q == DivBits(s[1], s[2], Precision)
         IN Rounded(q[1], s[3], 2 * q[2] > s[2], 2 * q[2] = s[2])

\* the floats of the quotients of up to Len(RowPool) rows
Doubles == [d \in 1 .. Len(RowPool) |-> [n \in 0 .. d |-> Double(n, d)]]
\* the float a returned ratio is
Float(x) == Doubles[x.den][x.num]

\* assert 0.2 < input_period < 20
PeriodOk(q) == PeriodMin < q.input_period /\ q.input_period < PeriodMax
\* assert any(value is not None for value in [ls, t, snr])
AnyAux(q) == q.ls # None \/ q.t # None \/ q.snr # None
\* assert mode in ['match', 'alias', 'recovery']
ModeOk(q) == q.mode \in Modes
\* variant: the ends of the power range accepted
PowerOkInclusive(q) == PowerMin <= q.ls.v /\ q.ls.v <= PowerMax
\* assert 0 < ls < 1
PowerOk(q) == PowerMin < q.ls.v /\ q.ls.v < PowerMax
\* assert snr > 0
SnrOk(q) == q.snr.v > SnrMin

\* variant: the lower bound written with the sign of the upper one
InPeriodSignSlip(r, q) ==
    /\ ColLt(r.prot_rh20, q.input_period + q.period_upper_limit)
    /\ ColGt(r.prot_rh20, q.input_period + q.period_lower_limit)
\* (df.prot_rh20 < input_period + period_upper_limit) & (df.prot_rh20 > input_period - period_lower_limit)
InPeriod(r, q) ==
    /\ ColLt(r.prot_rh20, q.input_period + q.period_upper_limit)
    /\ ColGt(r.prot_rh20, q.input_period - q.period_lower_limit)
\* (param_df.power > ls - ls_lower_limit) & (param_df.power < ls + ls_upper_limit)
InPower(r, q) ==
    /\ ColGt(r.power, q.ls.v - q.ls_lower_limit)
    /\ ColLt(r.power, q.ls.v + q.ls_upper_limit)
\* (param_df.Tmag > t - t_lower_limit) & (param_df.Tmag < t + t_upper_limit)
InTmag(r, q) ==
    /\ ColGt(r.Tmag, q.t.v - q.t_lower_limit)
    /\ ColLt(r.Tmag, q.t.v + q.t_upper_limit)
\* (param_df.snr > snr - snr_lower_limit) & (param_df.snr < snr + snr_upper_limit)
InSnr(r, q) ==
    /\ ColGt(r.snr, q.snr.v - q.snr_lower_limit)
    /\ ColLt(r.snr, q.snr.v + q.snr_upper_limit)

\* variant: recovery counts matches and aliases only
StatusSelectedTwo(mode, status) ==
    IF mode = "match" THEN status = "match"
    ELSE IF mode = "alias" THEN status = "alias"
    ELSE status \in {"match", "alias"}
\* the status test of each mode
StatusSelected(mode, status) ==
    IF mode = "match" THEN status = "match"
    ELSE IF mode = "alias" THEN status = "alias"
    ELSE status # "not_recovered"

\* variant: the filter drops the other rows from df itself
DroppedInPlace(df, kept) == kept
\* df.loc[mask] builds a new frame (SelectSeq below); this is what it leaves in df
Untouched(df, kept) == df

\* variant: completeness divided by the auxiliary-filtered population
DenominatorBoxed == param_df
\* variant: completeness divided by the whole catalog
DenominatorCatalog == IF func = "reliability" THEN param_df ELSE catalog
\* the population the ratio is taken over
Denominator == IF func = "reliability" THEN param_df ELSE all_df

\* variant: the floor excludes exactly MinRows rows too
RatioFloorInclusive(df, den, mode) ==
    IF Len(den) <= MinRows THEN None
    ELSE LET Hit(r) == StatusSelected(mode, r.status)
         IN Divide(Len(SelectSeq(df, Hit)), Len(den))
\* variant: no floor before the division
RatioNoFloor(df, den, mode) ==
    LET Hit(r) == StatusSelected(mode, r.status)
    IN Divide(Len(SelectSeq(df, Hit)), Len(den))
\* variant: the status test applied to the population divided by
RatioOfPopulation(df, den, mode) ==
    IF Len(den) < MinRows THEN None
    ELSE LET Hit(r) == StatusSelected(mode, r.status)
         IN Divide(Len(SelectSeq(den, Hit)), Len(den))
\* the last lines of both estimators: the row floor, then the ratio
Ratio(df, den, mode) ==
    IF Len(den) < MinRows THEN None
    ELSE LET Hit(r) == StatusSelected(mode, r.status)
         IN Divide(Len(SelectSeq(df, Hit)), Len(den))

\* a call: float() of the period arguments and the three entry asserts
Enter(f, q) ==
    /\ func' = f
    /\ query' = q
    /\ all_df' = <<>>
    /\ param_df' = <<>>
    /\ filters' = {}
    /\ IF ~PeriodOk(q) THEN pc' = "raised" /\ result' = Raised("period")
       ELSE IF ~AnyAux(q) THEN pc' = "raised" /\ result' = Raised("auxiliary")
       ELSE IF ~ModeOk(q) THEN pc' = "raised" /\ result' = Raised("mode")
       ELSE pc' = "period" /\ result' = None

\* the period filter of the catalog
FilterPeriod ==
    /\ pc = "period"
    /\ LET Test(r) == InPeriod(r, query)
       IN /\ param_df' = SelectSeq(catalog, Test)
          /\ all_df' = IF func = "completeness" THEN SelectSeq(catalog, Test) ELSE all_df
    /\ catalog' = Untouched(catalog, param_df')
    /\ filters' = filters \cup {"period"}
    /\ pc' = "ls"
    /\ UNCHANGED <<func, query, result, caller>>

\* if ls is not None: assert, then filter on power
FilterLs ==
    /\ pc = "ls"
    /\ IF query.ls = None
       THEN pc' = "t" /\ UNCHANGED <<param_df, filters, result>>
       ELSE IF ~PowerOk(query)
       THEN pc' = "raised" /\ result' = Raised("ls") /\ UNCHANGED <<param_df, filters>>
       ELSE LET Test(r) == InPower(r, query)
            IN /\ param_df' = SelectSeq(param_df, Test)
               /\ filters' = filters \cup {"ls"}
               /\ pc' = "t"
               /\ UNCHANGED result
    /\ UNCHANGED <<catalog, func, query, all_df, caller>>

\* if t is not None: filter on Tmag
FilterT ==
    /\ pc = "t"
    /\ IF query.t = None
       THEN UNCHANGED <<param_df, filters>>
       ELSE LET Test(r) == InTmag(r, query)
            IN /\ param_df' = SelectSeq(param_df, Test)
               /\ filters' = filters \cup {"t"}
    /\ pc' = "snr"
    /\ UNCHANGED <<catalog, func, query, all_df, result, caller>>

\* if snr is not None: assert, then filter on snr
FilterSnr ==
    /\ pc = "snr"
    /\ IF query.snr = None
       THEN pc' = "ratio" /\ UNCHANGED <<param_df, filters, result>>
       ELSE IF ~SnrOk(query)
       THEN pc' = "raised" /\ result' = Raised("snr") /\ UNCHANGED <<param_df, filters>>
       ELSE LET Test(r) == InSnr(r, query)
            IN /\ param_df' = SelectSeq(param_df, Test)
               /\ filters' = filters \cup {"snr"}
               /\ pc' = "ratio"
               /\ UNCHANGED result
    /\ UNCHANGED <<catalog, func, query, all_df, caller>>

\* the row floor and the ratio of the selected mode
Return ==
    /\ pc = "ratio"
    /\ result' = Ratio(param_df, Denominator, query.mode)
    /\ pc' = IF IsError(result') THEN "raised" ELSE "done"
    /\ UNCHANGED <<catalog, func, query, all_df, param_df, filters, caller>>

\* a caller with nothing in hand calls either estimator with any arguments
Call ==
    /\ pc = "idle"
    /\ prev = NoCall
    /\ \E f \in Funcs, q \in QuerySpace : Enter(f, q)
    /\ UNCHANGED <<catalog, caller>>

\* the caller takes the value or the error; the locals of the call are gone
Leave ==
    /\ pc \in {"done", "raised"}
    /\ pc' = "idle"
    /\ func' = "reliability"
    /\ query' = NoQuery
    /\ all_df' = <<>>
    /\ param_df' = <<>>
    /\ filters' = {}
    /\ result' = None
    /\ prev' = NoCall
    /\ UNCHANGED <<catalog, args, columns, batch, idx, partial, match_list, alias_list, recovery_list>>

\* index labels of the rows of a frame
Labels(df) == { df[i].index : i \in 1 .. Len(df) }

\* the caller keeps the outcome of a completed call: what was asked, the value
\* returned, and the populations it was computed from
Keep ==
    /\ pc = "done"
    /\ prev = NoCall
    /\ prev' = [ func |-> func, query |-> query, result |-> result,
                 boxed |-> Labels(param_df), denominator |-> Len(Denominator) ]
    /\ pc' = "idle"
    /\ func' = "reliability"
    /\ query' = NoQuery
    /\ all_df' = <<>>
    /\ param_df' = <<>>
    /\ filters' = {}
    /\ result' = None
    /\ UNCHANGED <<catalog, args, columns, batch, idx, partial, match_list, alias_list, recovery_list>>

LimitsOf(q) == [n \in LimitNames |-> q[n]]
WithLimits(q, w) == MakeQuery(q.input_period, q.ls, q.t, q.snr, q.mode, w)
\* q with one more limit raised from its default
Widenings(q) ==
    { WithLimits(q, [LimitsOf(q) EXCEPT ![n] = CustomLimit(n)]) :
        n \in { m \in LimitNames : q[m] = DefaultLimit(m) } }
OtherFunc(f) == IF f = "reliability" THEN "completeness" ELSE "reliability"

\* the caller repeats the kept call, as it was or with one thing changed: the
\* estimator, the mode, or one limit widened
CallAgain ==
    /\ pc = "idle"
    /\ prev # NoCall
    /\ \/ Enter(prev.func, prev.query)
       \/ Enter(OtherFunc(prev.func), prev.query)
       \/ \E m \in Modes \ {prev.query.mode} :
             Enter(prev.func, [prev.query EXCEPT !.mode = m])
       \/ \E q \in Widenings(prev.query) : Enter(prev.func, q)
    /\ UNCHANGED <<catalog, caller>>

Init ==
    /\ catalog \in Catalogs
    /\ func = "reliability"
    /\ query = NoQuery
    /\ pc = "idle"
    /\ all_df = <<>>
    /\ param_df = <<>>
    /\ filters = {}
    /\ result = None
    /\ prev = NoCall
    /\ args = [function |-> "reliability", batch_file |-> FALSE]
    /\ columns = <<>>
    /\ batch = <<>>
    /\ idx = 0
    /\ partial = <<>>
    /\ match_list = <<>>
    /\ alias_list = <<>>
    /\ recovery_list = <<>>

Next == Call \/ FilterPeriod \/ FilterLs \/ FilterT \/ FilterSnr \/ Return \/ Leave

Spec == Init /\ [][Next]_vars

----------------------------------------------------------------------------
(* Batch mode of main() *)

\* at most this many rows in a batch file
MaxBatch == 3

\* column layouts of the batch file; the first column is the star name
LayoutA == <<"star", "input_period", "t", "t_lower_lim", "t_upper_lim", "snr">>
LayoutB == <<"star", "input_period", "ls", "t", "t_lower_lim", "t_upper_lim">>
LayoutC == <<"star", "t", "snr">>
Layouts == {LayoutA, LayoutB, LayoutC}

Star(n) == [name |-> n]

\* rows of a batch file with each layout: valid rows with and without their
\* own limits, rows that fail an assert, rows with blank cells
BatchRows(cols) ==
    IF cols = LayoutA THEN
        { [star |-> Star("a1"), input_period |-> Num(90), t |-> Num(10),
           t_lower_lim |-> Num(2), t_upper_lim |-> Num(2), snr |-> NaN],
          [star |-> Star("a2"), input_period |-> Num(90), t |-> Num(10),
           t_lower_lim |-> NaN, t_upper_lim |-> NaN, snr |-> Num(10)],
          [star |-> Star("a3"), input_period |-> Num(90), t |-> NaN,
           t_lower_lim |-> NaN, t_upper_lim |-> NaN, snr |-> Num(SnrMin)],
          [star |-> Star("a4"), input_period |-> NaN, t |-> Num(10),
           t_lower_lim |-> Num(2), t_upper_lim |-> Num(2), snr |-> Num(10)] }
    ELSE IF cols = LayoutB THEN
        { [star |-> Star("b1"), input_period |-> Num(90), ls |-> Num(10), t |-> Num(10),
           t_lower_lim |-> Num(2), t_upper_lim |-> Num(2)],
          [star |-> Star("b2"), input_period |-> Num(90), ls |-> Num(PowerMax), t |-> Num(10),
           t_lower_lim |-> NaN, t_upper_lim |-> NaN],
          [star |-> Star("b3"), input_period |-> Num(90), ls |-> Num(10), t |-> NaN,
           t_lower_lim |-> NaN, t_upper_lim |-> Num(2)],
          [star |-> Star("b4"), input_period |-> Num(PeriodMax), ls |-> Num(10), t |-> Num(10),
           t_lower_lim |-> NaN, t_upper_lim |-> NaN] }
    ELSE
        { [star |-> Star("c1"), t |-> Num(10), snr |-> Num(10)],
          [star |-> Star("c2"), t |-> NaN, snr |-> NaN] }

RECURSIVE SeqsUpTo(_, _)
\* the sequences over S of length at most n
SeqsUpTo(S, n) ==
    IF n = 0 THEN {<<>>}
    ELSE LET shorter == SeqsUpTo(S, n - 1)
         IN shorter \cup { Append(q, x) : q \in shorter, x \in S }

\* catalogs of consecutive pool rows
SliceCatalogs ==
    { PickRows(i .. j, 1) : i \in 1 .. Len(RowPool) + 1,
                            j \in 0 .. Len(RowPool) } \cap Catalogs

\* the value of a --*-limit option (argparse defaults)
ArgsLimit(name) == DefaultLimit(name)

\* "lim" in col.lower() or "limit" in col.lower()
HasLim(col) == col \in {"t_lower_lim", "t_upper_lim"}

Position(cols, name) == CHOOSE i \in 1 .. Len(cols) : cols[i] = name
Present(cols, name) == \E i \in 1 .. Len(cols) : cols[i] = name

\* the cell of column i when it exists, is named like a limit and is not blank
LimitCell(row, cols, i) ==
    IF i <= Len(cols) /\ HasLim(cols[i]) /\ row[cols[i]] # NaN THEN row[cols[i]] ELSE None

\* _get_val_limits: (val, val_lower, val_upper)
GetValLimits(row, cols, name) ==
    IF ~Present(cols, name) THEN <<None, None, None>>
    ELSE LET i == Position(cols, name)
         IN << IF row[name] = NaN THEN None ELSE row[name],
               LimitCell(row, cols, i + 1),
               LimitCell(row, cols, i + 2) >>

\* the number of a limit cell on the grid of the argument it is passed as: the
\* limit cells of the layouts are magnitudes (units of 0.5), a power limit is
\* counted in units of 0.05
OnGrid(n, name) == IF name \in {"ls_lower_limit", "ls_upper_limit"} THEN 10 * n ELSE n

\* x if x is not None else the command-line value
OrArgs(x, name) == IF x # None THEN OnGrid(x.v, name) ELSE ArgsLimit(name)

\* the keyword arguments of the three calls made for a row
RowQuery(row, cols, mode) ==
    LET l == GetValLimits(row, cols, "ls")
        t == GetValLimits(row, cols, "t")
        s == GetValLimits(row, cols, "snr")
    IN [ input_period |-> row["input_period"].v,
         period_lower_limit |-> ArgsLimit("period_lower_limit"),
         period_upper_limit |-> ArgsLimit("period_upper_limit"),
         ls |-> l[1],
         ls_lower_limit |-> OrArgs(l[2], "ls_lower_limit"),
         ls_upper_limit |-> OrArgs(l[3], "ls_upper_limit"),
         t |-> t[1],
         t_lower_limit |-> OrArgs(t[2], "t_lower_limit"),
         t_upper_limit |-> OrArgs(t[3], "t_upper_limit"),
         snr |-> s[1],
         snr_lower_limit |-> OrArgs(s[2], "snr_lower_limit"),
         snr_upper_limit |-> OrArgs(s[3], "snr_upper_limit"),
         mode |-> mode ]

\* the estimator's locals once a call is over
Idle ==
    /\ pc' = "idle"
    /\ func' = "reliability"
    /\ query' = NoQuery
    /\ all_df' = <<>>
    /\ param_df' = <<>>
    /\ filters' = {}
    /\ result' = None

\* an exception before the estimator has run its asserts
Throw(msg) ==
    /\ pc' = "raised"
    /\ result' = Raised(msg)
    /\ UNCHANGED <<func, query, all_df, param_df, filters>>

\* the loop takes the next row: input_period, the three _get_val_limits, and
\* the first call (mode='match')
BatchRow ==
    /\ pc = "idle"
    /\ idx < Len(batch)
    /\ LET row == batch[idx + 1]
       IN IF ~Present(columns, "input_period") THEN Throw("Missing 'input_period'.")
          ELSE IF row["input_period"] = NaN THEN Throw("period")
          ELSE Enter(args.function, RowQuery(row, columns, "match"))
    /\ UNCHANGED <<catalog, caller>>

\* r_match or r_alias is bound and the call for the next mode is made
BatchNextMode ==
    /\ pc = "done"
    /\ query.mode # "recovery"
    /\ partial' = Append(partial, result)
    /\ Enter(func, [query EXCEPT !.mode = IF query.mode = "match" THEN "alias" ELSE "recovery"])
    /\ UNCHANGED <<catalog, prev, args, columns, batch, idx, match_list, alias_list, recovery_list>>

\* variant: the handler forgets the third list
OnErrorTwoLists(m, a, r) == <<Append(m, None), Append(a, None), r>>
\* except Exception: the three lists after the handler
OnError(m, a, r) == <<Append(m, None), Append(a, None), Append(r, None)>>

\* r_recovery is bound and the three results are appended
BatchAppend ==
    /\ pc = "done"
    /\ query.mode = "recovery"
    /\ match_list' = Append(match_list, partial[1])
    /\ alias_list' = Append(alias_list, partial[2])
    /\ recovery_list' = Append(recovery_list, result)
    /\ partial' = <<>>
    /\ idx' = idx + 1
    /\ Idle
    /\ UNCHANGED <<catalog, prev, args, columns, batch>>

\* except Exception: the row is skipped with None in the three lists
BatchExcept ==
    /\ pc = "raised"
    /\ match_list' = OnError(match_list, alias_list, recovery_list)[1]
    /\ alias_list' = OnError(match_list, alias_list, recovery_list)[2]
    /\ recovery_list' = OnError(match_list, alias_list, recovery_list)[3]
    /\ partial' = <<>>
    /\ idx' = idx + 1
    /\ Idle
    /\ UNCHANGED <<catalog, prev, args, columns, batch>>

InitBatch ==
    /\ catalog \in SliceCatalogs
    /\ func = "reliability"
    /\ query = NoQuery
    /\ pc = "idle"
    /\ all_df = <<>>
    /\ param_df = <<>>
    /\ filters = {}
    /\ result = None
    /\ prev = NoCall
    /\ args \in [function : Funcs, batch_file : {TRUE}]
    /\ columns \in Layouts
    /\ batch \in SeqsUpTo(BatchRows(columns), MaxBatch)
    /\ idx = 0
    /\ partial = <<>>
    /\ match_list = <<>>
    /\ alias_list = <<>>
    /\ recovery_list = <<>>

NextBatch ==
    \/ BatchRow \/ BatchNextMode \/ BatchAppend \/ BatchExcept
    \/ FilterPeriod \/ FilterLs \/ FilterT \/ FilterSnr \/ Return

SpecBatch == InitBatch /\ [][NextBatch]_vars

\* a caller that compares two calls
NextPair == Next \/ Keep \/ CallAgain

SpecPair == Init /\ [][NextPair]_vars

\* at most this many rows in a catalog asked about in the three modes
MaxModeRows == 5

ModeCatalogs ==
    { PickRows(S, 1) :
        S \in { T \in SUBSET (1 .. Len(RowPool)) : Cardinality(T) <= MaxModeRows } }

\* a caller asks either estimator for the three modes of one query, the way
\* the batch loop does for a row: mode='match' first
CallModes ==
    /\ pc = "idle"
    /\ \E f \in Funcs, q \in QuerySpace : q.mode = "match" /\ Enter(f, q)
    /\ UNCHANGED <<catalog, caller>>

\* the caller has the three results, or the error that ended the calls
DropModes ==
    /\ \/ pc = "raised"
       \/ pc = "done" /\ query.mode = "recovery"
    /\ partial' = <<>>
    /\ Idle
    /\ UNCHANGED <<catalog, prev, args, columns, batch, idx, match_list, alias_list, recovery_list>>

InitModes ==
    /\ catalog \in ModeCatalogs
    /\ func = "reliability"
    /\ query = NoQuery
    /\ pc = "idle"
    /\ all_df = <<>>
    /\ param_df = <<>>
    /\ filters = {}
    /\ result = None
    /\ prev = NoCall
    /\ args = [function |-> "reliability", batch_file |-> FALSE]
    /\ columns = <<>>
    /\ batch = <<>>
    /\ idx = 0
    /\ partial = <<>>
    /\ match_list = <<>>
    /\ alias_list = <<>>
    /\ recovery_list = <<>>

NextModes ==
    \/ CallModes \/ BatchNextMode \/ DropModes
    \/ FilterPeriod \/ FilterLs \/ FilterT \/ FilterSnr \/ Return

SpecModes == InitModes /\ [][NextModes]_vars

----------------------------------------------------------------------------
(* The statements checked, each written from the specification's wording *)

\* value strictly inside the open window (center - lower, center + upper)
Inside(cell, center, lower, upper) ==
    cell # NaN /\ center - lower < cell.v /\ cell.v < center + upper
\* an axis constrains a row only when its value is supplied
AxisOk(cell, arg, lower, upper) == arg = None \/ Inside(cell, arg.v, lower, upper)
InPeriodWindow(r, q) ==
    Inside(r.prot_rh20, q.input_period, q.period_lower_limit, q.period_upper_limit)
InAuxWindows(r, q) ==
    /\ AxisOk(r.power, q.ls, q.ls_lower_limit, q.ls_upper_limit)
    /\ AxisOk(r.Tmag, q.t, q.t_lower_limit, q.t_upper_limit)
    /\ AxisOk(r.snr, q.snr, q.snr_lower_limit, q.snr_upper_limit)
\* positions of the catalog rows in the period window
AllInPeriod(q) == { i \in 1 .. Len(catalog) : InPeriodWindow(catalog[i], q) }
\* positions of the catalog rows in the period window and every supplied window
Boxed(q) == { i \in AllInPeriod(q) : InAuxWindows(catalog[i], q) }
Counted(mode, status) ==
    \/ mode = "match" /\ status = "match"
    \/ mode = "alias" /\ status = "alias"
    \/ mode = "recovery" /\ status # "not_recovered"
Matched(q) == { i \in Boxed(q) : Counted(q.mode, catalog[i].status) }
IsRatio(x) == "num" \in DOMAIN x
\* x is the number n / d
IsQuotient(x, n, d) == IsRatio(x) /\ x.den > 0 /\ x.num * d = n * x.den
Indexes(df) == { df[i].index : i \in 1 .. Len(df) }
\* the five conditions under which a query is rejected
QueryInvalid(q) ==
    \/ ~(PeriodMin < q.input_period /\ q.input_period < PeriodMax)
    \/ (q.ls = None /\ q.t = None /\ q.snr = None)
    \/ q.mode \notin {"match", "alias", "recovery"}
    \/ (q.ls # None /\ ~(0 < q.ls.v /\ q.ls.v < PowerMax))
    \/ (q.snr # None /\ q.snr.v <= 0)
Finished == pc \in {"done", "raised"}

\* C1: a reliability call that passes validation returns None when fewer than
\* 3 rows lie in the box, and |matched| / |boxed| otherwise
C1_Reliability ==
    (pc = "done" /\ func = "reliability") =>
        IF Cardinality(Boxed(query)) < 3 THEN result = None
        ELSE IsQuotient(result, Cardinality(Matched(query)), Cardinality(Boxed(query)))
C1_Witness ==
    /\ pc = "done" /\ func = "reliability" /\ query.mode = "recovery"
    /\ Cardinality(Boxed(query)) = 3
    /\ IsRatio(result) /\ result.num = 2 /\ result.den = 3

\* C2: a completeness call that passes validation returns None exactly when
\* fewer than 3 rows lie in the period window, and otherwise |matched| over the
\* period-only population
C2_Completeness ==
    (pc = "done" /\ func = "completeness") =>
        IF Cardinality(AllInPeriod(query)) < 3 THEN result = None
        ELSE IsQuotient(result, Cardinality(Matched(query)), Cardinality(AllInPeriod(query)))
C2_Witness ==
    /\ pc = "done" /\ func = "completeness"
    /\ Cardinality(AllInPeriod(query)) >= 3
    /\ Boxed(query) = {}
    /\ IsRatio(result) /\ result.num = 0

\* C3: for a valid query both estimators end with None or a number in [0, 1]
C3_UnitInterval ==
    (Finished /\ ~QueryInvalid(query)) =>
        \/ result = None
        \/ IsRatio(result) /\ result.den > 0 /\ 0 <= result.num /\ result.num <= result.den
C3_Witness ==
    /\ pc = "done" /\ func = "completeness" /\ IsRatio(result)
    /\ 0 < result.num /\ result.num < result.den

C5_ValidateBeforeFilter == pc = "raised" => filters = {}

\* C6: the filtered set is exactly the rows strictly inside the period window
\* and every supplied window; a missing value excludes a row only on a
\* supplied axis
C6_FilteredSet ==
    pc \in {"ratio", "done"} =>
        Indexes(param_df) = { catalog[i].index : i \in Boxed(query) }
C6_Witness ==
    /\ pc = "ratio" /\ query.ls = None /\ query.t # None /\ query.snr = None
    /\ \E i \in 1 .. Len(param_df) : param_df[i].power = NaN
    /\ \E i \in 1 .. Len(catalog) :
          /\ catalog[i].Tmag = Num(query.t.v + query.t_upper_limit)
          /\ InPeriodWindow(catalog[i], query)
          /\ catalog[i].index \notin Indexes(param_df)

\* q2 is q1 with some limits increased and nothing else changed
IsWidening(q1, q2) ==
    /\ WithLimits(q2, LimitsOf(q1)) = q1
    /\ \A n \in LimitNames : q1[n] <= q2[n]
    /\ \E n \in LimitNames : q1[n] < q2[n]
\* size of the population the running call divides by
DenominatorSize == IF func = "reliability" THEN Len(param_df) ELSE Len(all_df)

\* C8: widening a window of a query keeps every row of the filtered set, and
\* the denominator does not decrease
C8_Monotone ==
    (pc \in {"ratio", "done"} /\ prev # NoCall /\ func = prev.func
        /\ IsWidening(prev.query, query)) =>
        /\ prev.boxed \subseteq Indexes(param_df)
        /\ prev.denominator <= DenominatorSize
C8_Witness ==
    /\ pc = "done" /\ prev # NoCall /\ func = prev.func
    /\ IsWidening(prev.query, query)
    /\ prev.boxed # {} /\ prev.boxed # Indexes(param_df)
    /\ prev.denominator < DenominatorSize

\* C9: when every row of the period window passes every supplied auxiliary
\* window, reliability and completeness of the same query are equal
C9_Agree ==
    (pc = "done" /\ prev # NoCall /\ func # prev.func /\ query = prev.query
        /\ AllInPeriod(query) = Boxed(query)) =>
        result = prev.result
C9_Witness ==
    /\ pc = "done" /\ prev # NoCall /\ func # prev.func /\ query = prev.query
    /\ AllInPeriod(query) = Boxed(query)
    /\ Len(catalog) > Cardinality(Boxed(query))
    /\ IsRatio(result) /\ result.num = 2 /\ result.den = 3

\* x is the value the estimator f is specified to return for query q
IsExpected(x, f, q) ==
    LET population == IF f = "reliability" THEN Boxed(q) ELSE AllInPeriod(q)
    IN IF Cardinality(population) < 3 THEN x = None
       ELSE IsQuotient(x, Cardinality(Matched(q)), Cardinality(population))
\* the row has no usable period, or its query breaks a validation condition
RowFails(row) ==
    IF ~Present(columns, "input_period") THEN TRUE
    ELSE IF row["input_period"] = NaN THEN TRUE
    ELSE QueryInvalid(RowQuery(row, columns, "match"))
OutputRow(i) == <<match_list[i], alias_list[i], recovery_list[i]>>

\* C7: every finished batch row has exactly one entry in each of the three
\* lists, in input order; between rows and after the loop the entries are
\* three None for a row that raised, and otherwise the values the row gets on
\* its own, whatever happened to the rows before it
C7_RowIsolation ==
    /\ idx <= Len(batch)
    /\ Len(match_list) = idx /\ Len(alias_list) = idx /\ Len(recovery_list) = idx
    /\ \A i \in (IF pc = "idle" THEN 1 .. idx ELSE {}) :
          IF RowFails(batch[i]) THEN OutputRow(i) = <<None, None, None>>
          ELSE /\ IsExpected(match_list[i], args.function, RowQuery(batch[i], columns, "match"))
               /\ IsExpected(alias_list[i], args.function, RowQuery(batch[i], columns, "alias"))
               /\ IsExpected(recovery_list[i], args.function, RowQuery(batch[i], columns, "recovery"))
C7_Witness ==
    /\ idx = 3 /\ Len(batch) = 3
    /\ ~RowFails(batch[1]) /\ RowFails(batch[2]) /\ ~RowFails(batch[3])
    /\ Present(columns, "snr") /\ batch[2]["snr"] = Num(SnrMin)
    /\ OutputRow(2) = <<None, None, None>>
    /\ IsRatio(match_list[1]) /\ IsRatio(recovery_list[3]) /\ recovery_list[3].num > 0

\* rows of the batch that are equal have equal outputs
SameRowsSameResults ==
    \A i, j \in 1 .. idx : batch[i] = batch[j] => OutputRow(i) = OutputRow(j)

\* C10: no step of either estimator changes the catalog, and a query repeated
\* after other queries gets the same results
C10_ReadOnly == [][catalog' = catalog /\ SameRowsSameResults']_vars
C10_Witness ==
    /\ idx = 3 /\ Len(batch) = 3
    /\ batch[1] = batch[3] /\ batch[2] # batch[1] /\ RowFails(batch[2])
    /\ IsRatio(recovery_list[1]) /\ recovery_list[1].num > 0
    /\ OutputRow(1) = OutputRow(3)

Params == {"ls", "t", "snr"}
LowerName(name) == IF name = "ls" THEN "ls_lower_limit"
                   ELSE IF name = "t" THEN "t_lower_limit" ELSE "snr_lower_limit"
UpperName(name) == IF name = "ls" THEN "ls_upper_limit"
                   ELSE IF name = "t" THEN "t_upper_limit" ELSE "snr_upper_limit"
\* the parameter a limit column is named after
OwnerOf(col) == IF col \in {"t_lower_lim", "t_upper_lim"} THEN "t" ELSE "nobody"
\* the limit the k-th column after the parameter gives it: the cell when the
\* column exists, is one of the parameter's limit columns and is not blank,
\* and the command-line default otherwise
OwnLimit(row, cols, name, k, arg) ==
    LET i == Position(cols, name) + k
    IN IF i <= Len(cols) /\ OwnerOf(cols[i]) = name /\ row[cols[i]] # NaN
       THEN OnGrid(row[cols[i]].v, arg)
       ELSE DefaultLimit(arg)
\* neither of the two columns after the parameter is named like a limit
NoLimitColumns(cols, name) ==
    \A k \in 1 .. 2 : Position(cols, name) + k <= Len(cols)
                        => ~HasLim(cols[Position(cols, name) + k])
\* the loop has passed the row in progress to the estimator
RowCalled ==
    /\ pc # "idle" /\ idx < Len(batch)
    /\ Present(columns, "input_period") /\ batch[idx + 1]["input_period"] # NaN

\* C11: for the row in progress and each of ls, t, snr it supplies, the limits
\* the estimator was called with are that parameter's own limit cells (first
\* column after it as lower, second as upper) or the command-line default when
\* the parameter has no such cell; _get_val_limits gives three None for an
\* absent column and (val, None, None) when no limit column follows
C11_OwnLimits ==
    RowCalled =>
        \A name \in Params :
            LET row == batch[idx + 1]
                got == GetValLimits(row, columns, name)
            IN IF ~Present(columns, name) THEN got = <<None, None, None>> /\ query[name] = None
               ELSE /\ NoLimitColumns(columns, name) => (got[2] = None /\ got[3] = None)
                    /\ query[name] = got[1]
                    /\ query[name] # None =>
                          /\ query[LowerName(name)] = OwnLimit(row, columns, name, 1, LowerName(name))
                          /\ query[UpperName(name)] = OwnLimit(row, columns, name, 2, UpperName(name))

\* the kept call and the finished one are the two estimators on one query
BothEstimators ==
    pc = "done" /\ prev # NoCall /\ func # prev.func /\ query = prev.query
ReliabilityResult == IF func = "reliability" THEN result ELSE prev.result
CompletenessResult == IF func = "completeness" THEN result ELSE prev.result
\* fraction x <= fraction y
FracLeq(x, y) == x.num * y.den <= y.num * x.den

\* C12: on the same catalog, query and mode, when reliability is a ratio,
\* completeness is a ratio too and is at most the reliability
C12_CompletenessBelow ==
    (BothEstimators /\ IsRatio(ReliabilityResult)) =>
        /\ IsRatio(CompletenessResult)
        /\ FracLeq(CompletenessResult, ReliabilityResult)
C12_Witness ==
    /\ BothEstimators
    /\ IsRatio(ReliabilityResult) /\ IsRatio(CompletenessResult)
    /\ CompletenessResult.num > 0
    /\ ~FracLeq(ReliabilityResult, CompletenessResult)
\* C12, second half: completeness defined while reliability is undefined
C12_Converse ==
    /\ BothEstimators
    /\ ReliabilityResult = None /\ IsRatio(CompletenessResult)
    /\ CompletenessResult.num > 0

\* the bits of the float x on the scale 2^e (e >= x.e), n places
Aligned(x, e, n) ==
    [i \in 1 .. n |-> IF i - (e - x.e) \in 1 .. Len(x.m) THEN x.m[i - (e - x.e)] ELSE 0]
\* the carry into place i of x + y, for bit strings of one length
Carry(x, y, i) ==
    IF \E j \in i + 1 .. Len(x) :
          /\ x[j] + y[j] = 2
          /\ \A k \in i + 1 .. j - 1 : x[k] + y[k] = 1
    THEN 1 ELSE 0
\* x + y for bit strings of one length: <<carry out, bits>>
AddBits(x, y) ==
    << Carry(x, y, 0), [i \in 1 .. Len(x) |-> (x[i] + y[i] + Carry(x, y, i)) % 2] >>
\* x + y of two floats: the exact sum rounded to a float
FloatAdd(x, y) ==
    IF x = FloatZero THEN y
    ELSE IF y = FloatZero THEN x
    ELSE LET e == IF x.e >= y.e THEN x.e ELSE y.e
             n == Precision + (IF x.e >= y.e THEN x.e - y.e ELSE y.e - x.e)
             sum == AddBits(Aligned(x, e, n), Aligned(y, e, n))
             all == IF sum[1] = 1 THEN <<1>> \o sum[2] ELSE sum[2]
             tail == SubSeq(all, Precision + 1, Len(all))
             half == tail # <<>> /\ tail[1] = 1
             more == \E i \in 2 .. Len(tail) : tail[i] = 1
         IN Rounded(SubSeq(all, 1, Precision), e + sum[1], half /\ more, half /\ ~more)
\* x <= y for bit strings of one length
LexLeq(x, y) ==
    \/ \A i \in 1 .. Len(x) : x[i] = y[i]
    \/ \E i \in 1 .. Len(x) : x[i] < y[i] /\ \A j \in 1 .. i - 1 : x[j] = y[j]
\* x <= y of two floats
FloatLeq(x, y) ==
    IF x = FloatZero THEN TRUE
    ELSE IF y = FloatZero THEN FALSE
    ELSE x.e < y.e \/ (x.e = y.e /\ LexLeq(x.m, y.m))

\* the three calls for one query are over: r_match, r_alias and the recovery result
ModesDone == pc = "done" /\ query.mode = "recovery" /\ Len(partial) = 2
\* counted rows with a status other than match, alias or not_recovered
OtherCounted(q) ==
    { i \in Boxed(q) : catalog[i].status \notin {"match", "alias", "not_recovered"} }
\* all three undefined, or all three ratios
SameDefinedness(m, a, r) ==
    \/ m = None /\ a = None /\ r = None
    \/ IsRatio(m) /\ IsRatio(a) /\ IsRatio(r)
\* x + y <= z, and x + y = z, for fractions as numbers
SumLeq(x, y, z) == (x.num * y.den + y.num * x.den) * z.den <= z.num * x.den * y.den
SumEq(x, y, z) == (x.num * y.den + y.num * x.den) * z.den = z.num * x.den * y.den

\* C13 as stated, on the values returned: the result is undefined in all three
\* modes or in none, and when defined match + alias <= recovery, with
\* equality exactly when no counted row has another status
C13_ModeSum ==
    /\ partial # <<>> => pc # "raised"
    /\ ModesDone =>
          /\ SameDefinedness(partial[1], partial[2], result)
          /\ IsRatio(result) =>
                LET sum == FloatAdd(Float(partial[1]), Float(partial[2]))
                IN /\ FloatLeq(sum, Float(result))
                   /\ (sum = Float(result)) <=> (OtherCounted(query) = {})

\* C13 amended: the same, with the three ratios taken as the exact quotients
\* of the counts (match count + alias count <= recovery count over one
\* denominator) instead of the rounded floats
C13_ModeCounts ==
    /\ partial # <<>> => pc # "raised"
    /\ ModesDone =>
          /\ SameDefinedness(partial[1], partial[2], result)
          /\ IsRatio(result) =>
                /\ SumLeq(partial[1], partial[2], result)
                /\ SumEq(partial[1], partial[2], result) <=> (OtherCounted(query) = {})
C13_Witness ==
    /\ ModesDone /\ IsRatio(result)
    /\ partial[1].num > 0
    /\ OtherCounted(query) # {}
    /\ ~SumEq(partial[1], partial[2], result)

====
